---- MODULE Spec2Model ----
(***************************************************************************)
(* Model of src/video_cutter.py: the main window VideoCutter (UI thread),  *)
(* the worker VideoProcessor (one thread per run), the external encoder    *)
(* process each worker spawns, and the queue of signals that carries       *)
(* progress / finished notifications from the workers to the UI thread.    *)
(*                                                                         *)
(* Units: slider values and durations are milliseconds (the code divides   *)
(* slider values by 1000 to get seconds), the speed factor is in tenths    *)
(* (speed_spin has range 0.5 .. 2.0), the seconds field of a time= marker  *)
(* is in centiseconds.  All arithmetic of the code that is done in floats  *)
(* is done here on these exact integers.                                   *)
(***************************************************************************)
EXTENDS Integers, Sequences, FiniteSets, TLC

\* ------------------------------------------------------------------ bounds
MaxRuns == 2        \* VideoProcessor objects created in one behaviour
MaxLines == 2       \* diagnostic lines one worker reads

\* ------------------------------------------------------- inputs of the model
\* The files the user can load.  Each has its own probe result.
Sources == {"a.mp4", "b.mp4"}
NoPath == "None"

\* a one-minute file, loaded where sizes are estimated
LongSources == {"c.mp4"}

\* format.duration of a source, in ms
SrcDuration(s) ==
  IF s = "a.mp4" THEN 2000 ELSE IF s = "c.mp4" THEN 60000 ELSE 1000
\* format.bit_rate of a source, in kbps
SrcBitrate(s) == IF s \in {"a.mp4", "c.mp4"} THEN 8000 ELSE 4000

\* positions the user drags a range slider to
SliderPositions == {0, 1000, 2000}

\* values of speed_spin, in tenths
SpeedValues == {5, 10, 20}

\* values of quality_spin (range 0 .. 51, 23 when the window is built)
QualityRange == 0..51
QualityValues == {0, 23, 51}

\* values of fps_spin (60 when the window is built)
FpsValues == {30, 60}

\* values of bitrate_spin, kbps (10000 when the window is built)
BitrateValues == {1000, 10000}

\* items of resolution_combo, gpu_combo and format_combo
\* ("Original" stands for the item '原始')
Resolutions == {"Original", "4K", "2K", "1080p", "720p"}
Vendors == {"CPU", "NVIDIA", "AMD", "Intel"}
Formats == {"mp4", "mkv", "avi", "mov"}

\* exit codes of the external process
ExitCodes == {0, 1}

\* outcomes of get_video_info:
\*   "error"   an exception before video_duration is assigned
\*   "partial" an exception after duration / bit_rate were stored but before
\*             the slider maxima are set (no 'streams' key, bad r_frame_rate)
\*   "ok"      no exception
ProbeOutcomes == {"error", "partial", "ok"}

\* ------------------------------------------------------- diagnostic lines
Num(n) == [num |-> TRUE, val |-> n]
NaN == [num |-> FALSE, val |-> 0]

\* A line of the encoder's stderr: whether it contains 'time=', and the
\* ':'-separated fields of the token that follows it.
Lines ==
  { [marker |-> FALSE, fields |-> <<>>],                      \* chatter
    [marker |-> TRUE, fields |-> <<Num(0), Num(0), Num(100)>>], \* 00:00:01.00
    [marker |-> TRUE, fields |-> <<Num(0), Num(0), Num(200)>>], \* 00:00:02.00
    [marker |-> TRUE, fields |-> <<Num(-1), Num(0), Num(0)>>],  \* -1:00:00.00
    [marker |-> TRUE, fields |-> <<Num(0), Num(0)>>],           \* 00:00
    [marker |-> TRUE, fields |-> <<NaN>>] }                     \* N/A

\* messages of the finished signal
MsgDone == "done"            \* "影片剪輯完成！"
MsgGeneric == "generic"      \* "剪輯錯誤，請檢查設定或硬體支援。"
MsgException == "exception"  \* f"錯誤: {str(e)}"

\* ------------------------------------------------------------------ state
VARIABLES
  video_path,        \* VideoCutter.video_path
  video_duration,    \* VideoCutter.video_duration, ms
  video_bitrate,     \* VideoCutter.video_bitrate, kbps
  slider_max,        \* maximum of start_slider and of end_slider
  start_slider,      \* start_slider.value()
  end_slider,        \* end_slider.value()
  copy_mode,         \* copy_mode_radio.isChecked()
  speed_spin,        \* speed_spin.value(), tenths
  quality_spin,      \* quality_spin.value()
  fps_check,         \* fps_check.isChecked()
  fps_spin,          \* fps_spin.value()
  bitrate_check,     \* bitrate_check.isChecked()
  bitrate_spin,      \* bitrate_spin.value(), kbps
  resolution_combo,  \* resolution_combo.currentText()
  gpu_combo,         \* gpu_combo.currentText()
  format_combo,      \* format_combo.currentText()
  size_estimate_label, \* what size_estimate_label shows
  detect_btn,        \* detect_btn.isEnabled()
  env,               \* where the tool files are on this machine
  gpu_checker,       \* the GPUCheckThread object
  progress_visible,  \* progress_bar.isVisible()
  progress_value,    \* progress_bar.value()
  process_btn,       \* process_btn.isEnabled()
  shown,             \* the message box the last UI handler showed, or "none"
  runs,              \* the VideoProcessor objects created so far
  queue,             \* signals posted to the UI thread, oldest first
  ui                 \* per run: what the UI thread has received

vars == <<video_path, video_duration, video_bitrate, slider_max, start_slider,
          end_slider, copy_mode, speed_spin, quality_spin, fps_check, fps_spin,
          bitrate_check, bitrate_spin, resolution_combo, gpu_combo,
          format_combo, size_estimate_label, detect_btn, env, gpu_checker,
          progress_visible, progress_value, process_btn, shown, runs, queue,
          ui>>

source_vars == <<video_path, video_duration, video_bitrate, slider_max,
                 start_slider, end_slider>>
\* the widgets of the advanced mode other than speed_spin, and format_combo
advanced_vars == <<quality_spin, fps_check, fps_spin, bitrate_check,
                   bitrate_spin, resolution_combo, gpu_combo, format_combo>>
\* the accelerator check and the machine it runs on
probe_vars == <<detect_btn, env, gpu_checker>>
setting_vars == <<copy_mode, speed_spin, advanced_vars>>
bar_vars == <<progress_visible, progress_value, process_btn>>

\* maximum of a freshly constructed QSlider
DefaultSliderMax == 99

Min(a, b) == IF a < b THEN a ELSE b
Max(a, b) == IF a > b THEN a ELSE b

\* int(x / y) for y > 0: Python's int() truncates towards zero
TruncDiv(x, y) == IF x >= 0 THEN x \div y ELSE -((-x) \div y)

\* QSlider keeps its value inside [0, maximum]
Clamp(v, mx) == Max(0, Min(v, mx))

\* ------------------------------------------------------------ get_tool_path
\* The directories a tool is looked for in: sys._MEIPASS of a bundled
\* application, the directory of the script, a directory of the search path.
Meipass == "_MEIPASS"
ScriptDir == "script_dir"
PathDir == "PATH"

\* os.path.join
Join(dir, filename) == dir \o "/" \o filename

\* The machine: frozen tells whether sys has _MEIPASS; bundled, local and
\* on_path are the file names present in the three places (on_path: the names
\* shutil.which finds).  An application that is not bundled has no bundle.
ToolNames == {"ffmpeg.exe"}
PathNames == {"ffmpeg.exe", "ffmpeg"}
Envs ==
  { e \in [frozen : BOOLEAN, bundled : SUBSET ToolNames,
            local : SUBSET ToolNames, on_path : SUBSET PathNames] :
      ~e.frozen => e.bundled = {} }

\* a source checkout with ffmpeg.exe next to the script
DefaultEnv ==
  [frozen |-> FALSE, bundled |-> {}, local |-> {"ffmpeg.exe"}, on_path |-> {}]

get_tool_path(e, filename) ==
  IF e.frozen THEN Join(Meipass, filename)
  ELSE IF filename \in e.local THEN Join(ScriptDir, filename)
  ELSE IF filename \in e.on_path THEN Join(PathDir, filename)
  ELSE filename

\* os.path.exists of a path get_tool_path returned; the working directory
\* holds no tool, so a bare file name does not exist
PathExists(e, path) ==
  \E f \in ToolNames :
    \/ path = Join(Meipass, f) /\ f \in e.bundled
    \/ path = Join(ScriptDir, f) /\ f \in e.local
    \/ path = Join(PathDir, f) /\ f \in e.on_path

\* ------------------------------------------------------- estimate_file_size
\* The floats of estimate_file_size are exact fractions [n, d] here, d > 0.
RECURSIVE Gcd(_, _)
Gcd(a, b) == IF b = 0 THEN a ELSE Gcd(b, a % b)

Rat(n, d) == LET g == Gcd(n, d) IN [n |-> n \div g, d |-> d \div g]
RatMul(x, y) ==
  LET g1 == Gcd(x.n, y.d)
      g2 == Gcd(y.n, x.d)
  IN [n |-> (x.n \div g1) * (y.n \div g2), d |-> (x.d \div g2) * (y.d \div g1)]

\* the nearest integer to a fraction >= 0, a tie going to the even one
RoundRat(x) ==
  LET q == x.n \div x.d
      r == x.n % x.d
  IN IF 2 * r > x.d \/ (2 * r = x.d /\ q % 2 = 1) THEN q + 1 ELSE q

\* what size_estimate_label shows: "dash" is the text of the new window,
\* "zero" is '0 MB', "copy" and "compress" carry the number of the text, which
\* f'{size_mb:.1f}' rounds to tenths of a MB
DashLabel == [kind |-> "dash", tenths |-> 0]
ZeroLabel == [kind |-> "zero", tenths |-> 0]

\* speed = 1.0; if self.compress_mode_radio.isChecked(): speed_spin.value()
EstimateSpeedOfSpin(copy, speed) == speed
EstimateSpeed(copy, speed) == IF ~copy THEN speed ELSE 10

\* self.video_bitrate * (1 - (crf / 51) * 0.7)
QualityBitrateRising(vbitrate, crf) == Rat(vbitrate * (510 + 7 * crf), 510)
QualityBitrate(vbitrate, crf) == Rat(vbitrate * (510 - 7 * crf), 510)

\* the factor the resolution text gives
ResolutionFactor(res) ==
  IF res = "720p" THEN Rat(4, 10)
  ELSE IF res = "1080p" THEN Rat(6, 10)
  ELSE IF res = "2K" THEN Rat(8, 10)
  ELSE Rat(1, 1)

\* (bitrate * duration) / 8 / 1024, bitrate in kbps and duration in seconds
SizeMb(bitrate, duration) == RatMul(RatMul(bitrate, duration), Rat(1, 8 * 1024))

\* f'{size_mb:.1f}'
FormatTenths(size_mb) == RoundRat(RatMul(size_mb, Rat(10, 1)))

\* estimate_file_size: the label it leaves, old being the label before
estimate_file_size(old, path, vbitrate, start, end, copy, speed_v, bcheck, bspin, crf, res) ==
  IF path = NoPath \/ vbitrate = 0 THEN old
  ELSE
    LET speed == EstimateSpeed(copy, speed_v)
        duration == Rat(Max(0, end - start) * 10, 1000 * speed)
    IN IF duration.n = 0 THEN ZeroLabel
       ELSE IF copy
         THEN [kind |-> "copy",
               tenths |-> FormatTenths(SizeMb(Rat(vbitrate, 1), duration))]
       ELSE
         LET bitrate == IF bcheck THEN Rat(bspin, 1)
                                  ELSE QualityBitrate(vbitrate, crf)
             scaled == RatMul(bitrate, ResolutionFactor(res))
         IN [kind |-> "compress",
             tenths |-> FormatTenths(SizeMb(scaled, duration))]

\* the call of estimate_file_size that ends a handler: it reads the widgets
\* as the handler leaves them
EstimateAfter ==
  size_estimate_label' =
    estimate_file_size(size_estimate_label, video_path', video_bitrate',
                       start_slider', end_slider', copy_mode', speed_spin',
                       bitrate_check', bitrate_spin', quality_spin',
                       resolution_combo')

\* ------------------------------------------------------ GPUCheckThread
\* before start_gpu_check has created a GPUCheckThread
NoChecker ==
  [ pc |-> "none",              \* position of run(): none, start, testing, done
    ffmpeg_path |-> "",
    report |-> <<>>,            \* the lines of the report
    available_vendors |-> <<>>,
    tested |-> 0,               \* entries of tests the loop has done
    codes |-> <<>>,             \* what each synthetic encode ended with
    emitted |-> <<>>,           \* arguments given to finished.emit
    delivered |-> 0 ]           \* of these, handled by on_gpu_check_finished

\* the progress bar, the buttons and the workers of a new window
InitIdle ==
  /\ detect_btn = TRUE
  /\ gpu_checker = NoChecker
  /\ progress_visible = FALSE
  /\ progress_value = 0
  /\ shown = "none"
  /\ runs = <<>>
  /\ queue = <<>>
  /\ ui = <<>>

Init ==
  /\ video_path = NoPath
  /\ video_duration = 0
  /\ video_bitrate = 0
  /\ slider_max = DefaultSliderMax
  /\ start_slider = 0
  /\ end_slider = 0
  /\ copy_mode = TRUE
  /\ speed_spin = 10
  /\ quality_spin = 23
  /\ fps_check = FALSE
  /\ fps_spin = 60
  /\ bitrate_check = FALSE
  /\ bitrate_spin = 10000
  /\ resolution_combo = "Original"
  /\ gpu_combo = "CPU"
  /\ format_combo = "mp4"
  /\ size_estimate_label = DashLabel
  /\ env = DefaultEnv
  /\ process_btn = FALSE
  /\ InitIdle

\* ------------------------------------------------------------ UI handlers
\* Popen.returncode before wait() has returned (None in the code)
NoReturnCode == -1

\* None as the value of quality, fps or bitrate, and of resolution
NoneInt == -1
NoneStr == "None"

\* VideoProcessor.__init__: the job is copied into the worker object
NewProcessor(input_path, output_path, start_time, end_time, mode, quality, fps, bitrate, output_format, resolution, gpu_vendor, speed) ==
  [ input_path |-> input_path, output_path |-> output_path,
    start_time |-> start_time, end_time |-> end_time,
    mode |-> mode, quality |-> quality, fps |-> fps, bitrate |-> bitrate,
    output_format |-> output_format, resolution |-> resolution,
    gpu_vendor |-> gpu_vendor, speed |-> speed,
    cmd |-> <<>>,              \* the argv run() has built
    pc |-> "start",            \* position of run(): start, reading (the
                               \*   process is spawned), done
    returncode |-> NoReturnCode,
    stopped |-> FALSE,         \* stop() was called
    signalled |-> FALSE,       \* terminate() reached the live process
    nlines |-> 0,
    skipped |-> 0,             \* lines whose parsing raised ('except: pass')
    emitted |-> <<>>,          \* values given to progress.emit
    completions |-> <<>> ]     \* arguments given to finished.emit

\* what the UI thread has received from one worker: progress signals,
\* finished signals, and the message boxes it has shown for it
NewUi == [progress |-> 0, finished |-> 0, boxes |-> 0]

\* get_video_info, given what the prober returns for the file
GetVideoInfo(s, outcome, hasBitrate) ==
  LET duration == SrcDuration(s)
      max_ms == duration
  IN
  /\ video_duration' = IF outcome = "error" THEN video_duration ELSE duration
  /\ video_bitrate' = IF outcome # "error" /\ hasBitrate
                        THEN SrcBitrate(s) ELSE video_bitrate
  /\ IF outcome = "ok"
       THEN /\ slider_max' = max_ms
            /\ start_slider' = Clamp(start_slider, max_ms)
            /\ end_slider' = max_ms
            /\ shown' = "none"
            /\ EstimateAfter
       ELSE /\ UNCHANGED <<slider_max, start_slider, end_slider,
                           size_estimate_label>>
            /\ shown' = "probe"

\* load_video, reached from select_video and from dropEvent
load_video(s, outcome, hasBitrate) ==
  /\ video_path' = s
  /\ process_btn' = TRUE
  /\ UNCHANGED <<setting_vars, probe_vars, progress_visible, progress_value,
                 runs, queue, ui>>
  /\ GetVideoInfo(s, outcome, hasBitrate)

\* the user moves a range slider (drag, click, step buttons)
MoveSlider(which, v) ==
  /\ video_path # NoPath
  /\ IF which = "start"
       THEN start_slider' = Clamp(v, slider_max) /\ UNCHANGED end_slider
       ELSE end_slider' = Clamp(v, slider_max) /\ UNCHANGED start_slider
  /\ shown' = "none"
  /\ UNCHANGED <<video_path, video_duration, video_bitrate, slider_max,
                 setting_vars, probe_vars, bar_vars, runs, queue, ui>>
  /\ IF start_slider' # start_slider \/ end_slider' # end_slider
       THEN EstimateAfter          \* valueChanged
       ELSE UNCHANGED size_estimate_label

\* the user picks one of the two mode radio buttons
SetMode(b) ==
  /\ copy_mode # b
  /\ copy_mode' = b
  /\ shown' = "none"
  /\ UNCHANGED <<source_vars, speed_spin, advanced_vars, probe_vars, bar_vars,
                 runs, queue, ui>>
  /\ EstimateAfter

\* the user changes speed_spin, enabled only in the advanced mode
SetSpeed(v) ==
  /\ ~copy_mode
  /\ speed_spin # v
  /\ speed_spin' = v
  /\ shown' = "none"
  /\ UNCHANGED <<source_vars, copy_mode, advanced_vars, probe_vars, bar_vars,
                 runs, queue, ui>>
  /\ EstimateAfter

\* what the handlers of the advanced widgets leave alone
other_vars == <<source_vars, copy_mode, speed_spin, probe_vars, bar_vars, runs,
                queue, ui>>

\* the user changes quality_spin, enabled only in the advanced mode
SetQuality(v) ==
  /\ ~copy_mode
  /\ quality_spin # v
  /\ quality_spin' = v
  /\ shown' = "none"
  /\ UNCHANGED <<other_vars, fps_check, fps_spin, bitrate_check, bitrate_spin,
                 resolution_combo, gpu_combo, format_combo>>
  /\ EstimateAfter

\* the user ticks or clears fps_check
SetFpsCheck(b) ==
  /\ ~copy_mode
  /\ fps_check # b
  /\ fps_check' = b
  /\ shown' = "none"
  /\ UNCHANGED <<other_vars, quality_spin, fps_spin, bitrate_check,
                 bitrate_spin, resolution_combo, gpu_combo, format_combo,
                 size_estimate_label>>

\* the user changes fps_spin, enabled while fps_check is ticked
SetFps(v) ==
  /\ ~copy_mode
  /\ fps_check
  /\ fps_spin # v
  /\ fps_spin' = v
  /\ shown' = "none"
  /\ UNCHANGED <<other_vars, quality_spin, fps_check, bitrate_check,
                 bitrate_spin, resolution_combo, gpu_combo, format_combo,
                 size_estimate_label>>

\* the user ticks or clears bitrate_check
SetBitrateCheck(b) ==
  /\ ~copy_mode
  /\ bitrate_check # b
  /\ bitrate_check' = b
  /\ shown' = "none"
  /\ UNCHANGED <<other_vars, quality_spin, fps_check, fps_spin, bitrate_spin,
                 resolution_combo, gpu_combo, format_combo>>
  /\ EstimateAfter

\* the user changes bitrate_spin, enabled while bitrate_check is ticked
SetBitrate(v) ==
  /\ ~copy_mode
  /\ bitrate_check
  /\ bitrate_spin # v
  /\ bitrate_spin' = v
  /\ shown' = "none"
  /\ UNCHANGED <<other_vars, quality_spin, fps_check, fps_spin, bitrate_check,
                 resolution_combo, gpu_combo, format_combo>>
  /\ EstimateAfter

\* the user picks an item of resolution_combo
SetResolution(t) ==
  /\ ~copy_mode
  /\ resolution_combo # t
  /\ resolution_combo' = t
  /\ shown' = "none"
  /\ UNCHANGED <<other_vars, quality_spin, fps_check, fps_spin, bitrate_check,
                 bitrate_spin, gpu_combo, format_combo>>
  /\ EstimateAfter

\* the user picks an item of gpu_combo
SetGpu(t) ==
  /\ ~copy_mode
  /\ gpu_combo # t
  /\ gpu_combo' = t
  /\ shown' = "none"
  /\ UNCHANGED <<other_vars, quality_spin, fps_check, fps_spin, bitrate_check,
                 bitrate_spin, resolution_combo, format_combo,
                 size_estimate_label>>

\* the user picks an item of format_combo
SetFormat(t) ==
  /\ format_combo # t
  /\ format_combo' = t
  /\ shown' = "none"
  /\ UNCHANGED <<other_vars, quality_spin, fps_check, fps_spin, bitrate_check,
                 bitrate_spin, resolution_combo, gpu_combo,
                 size_estimate_label>>

\* resolution as process_video derives it from the text of resolution_combo
JobResolution(mode, res_text) ==
  IF mode # "compress" \/ res_text = "Original" THEN NoneStr
  ELSE IF res_text = "720p" THEN "1280:-1"
  ELSE IF res_text = "1080p" THEN "1920:-1"
  ELSE IF res_text = "2K" THEN "2560:-1"
  ELSE IF res_text = "4K" THEN "3840:-1"
  ELSE "-1:-1"

\* gpu_vendor = 'CPU'; if mode == 'compress': gpu_combo.currentText()
JobVendorOfCombo(mode, combo) == combo
JobVendor(mode, combo) == IF mode = "compress" THEN combo ELSE "CPU"

\* the cut range process_video refuses
RangeRejectedStrict(start_time, end_time) == start_time > end_time
RangeRejected(start_time, end_time) == start_time >= end_time

\* process_video: the click on process_btn; out is what the save dialog
\* returns ("" when it is cancelled)
process_video(out) ==
  /\ process_btn
  /\ LET start_time == start_slider
         end_time == end_slider
         output_format == format_combo
         mode == IF copy_mode THEN "copy" ELSE "compress"
         quality == IF mode = "compress" THEN quality_spin ELSE NoneInt
         fps == IF mode = "compress" /\ fps_check THEN fps_spin ELSE NoneInt
         bitrate == IF mode = "compress" /\ bitrate_check
                      THEN bitrate_spin ELSE NoneInt
         speed == IF mode = "compress" THEN speed_spin ELSE 10
         resolution == JobResolution(mode, resolution_combo)
         gpu_vendor == JobVendor(mode, gpu_combo)
     IN
     IF video_path = NoPath
       THEN /\ shown' = "none"
            /\ UNCHANGED <<source_vars, setting_vars, size_estimate_label,
                           probe_vars, bar_vars, runs, queue, ui>>
     ELSE IF RangeRejected(start_time, end_time)
       THEN /\ shown' = "range"
            /\ UNCHANGED <<source_vars, setting_vars, size_estimate_label,
                           probe_vars, bar_vars, runs, queue, ui>>
     ELSE IF out = ""
       THEN /\ shown' = "none"
            /\ UNCHANGED <<source_vars, setting_vars, size_estimate_label,
                           probe_vars, bar_vars, runs, queue, ui>>
     ELSE /\ Len(runs) < MaxRuns
          /\ shown' = "none"
          /\ progress_visible' = TRUE
          /\ progress_value' = 0
          /\ process_btn' = FALSE
          /\ runs' = Append(runs, NewProcessor(video_path, out, start_time,
                                               end_time, mode, quality, fps,
                                               bitrate, output_format,
                                               resolution, gpu_vendor, speed))
          /\ ui' = Append(ui, NewUi)
          /\ UNCHANGED <<source_vars, setting_vars, size_estimate_label,
                         probe_vars, queue>>

\* ------------------------------------------------- VideoProcessor.run
\* h, m, s = time_str.split(':'); int(h) * 3600 + int(m) * 60 + float(s),
\* in centiseconds.  ok is FALSE when the statement raises (caught by the
\* bare except), that is when there are not three fields or one of them is
\* not a number.
ParseTimeLenient(line) ==
  LET f == line.fields IN
  IF Len(f) = 3 /\ f[1].num /\ f[2].num /\ f[3].num
    THEN [ok |-> TRUE, current |-> f[1].val * 360000 + f[2].val * 6000 + f[3].val]
    ELSE [ok |-> TRUE, current |-> 0]
ParseTime(line) ==
  LET f == line.fields IN
  IF Len(f) = 3 /\ f[1].num /\ f[2].num /\ f[3].num
    THEN [ok |-> TRUE, current |-> f[1].val * 360000 + f[2].val * 6000 + f[3].val]
    ELSE [ok |-> FALSE, current |-> 0]

\* min(int((current / expected_duration) * 100), 100) with
\* expected_duration = duration / speed
ProgressPercent(current, duration, speed) ==
  Min(TruncDiv(current * speed * 100, duration), 100)

\* the values the body of the for loop gives to progress.emit for one line
LineProgress(run, line) ==
  LET duration == run.end_time - run.start_time
      t == ParseTime(line)
  IN IF line.marker /\ t.ok /\ duration > 0
       THEN <<ProgressPercent(t.current, duration, run.speed)>>
       ELSE <<>>

\* the bare except clause of the loop body runs for this line
LineSkipped(line) == line.marker /\ ~ParseTime(line).ok

\* returncode == 0
ExitOkAny(code) == code >= 0
ExitOk(code) == code = 0

Completion(success, msg) == [success |-> success, msg |-> msg]

\* what the except clause of run() emits
HandleExceptionSilent == <<>>
HandleException == <<Completion(FALSE, MsgException)>>

ProgressEvent(r, p) ==
  [run |-> r, kind |-> "progress", value |-> p, success |-> FALSE, msg |-> ""]
FinishedEvent(r, c) ==
  [run |-> r, kind |-> "finished", value |-> 0, success |-> c.success,
   msg |-> c.msg]

RECURSIVE ProgressEvents(_, _)
ProgressEvents(r, ps) ==
  IF ps = <<>> THEN <<>>
  ELSE <<ProgressEvent(r, Head(ps))>> \o ProgressEvents(r, Tail(ps))

RECURSIVE FinishedEvents(_, _)
FinishedEvents(r, cs) ==
  IF cs = <<>> THEN <<>>
  ELSE <<FinishedEvent(r, Head(cs))>> \o FinishedEvents(r, Tail(cs))

\* ------------------------------------------------- the argv run() builds
\* str() of a float number of seconds, given in ms: the shortest decimal,
\* with at least one digit after the point.  (Exact for the numbers of the
\* model; end_time - start_time is a float subtraction, which is exact for
\* multiples of 0.5 s.)
FloatStr(ms) ==
  LET whole == ms \div 1000
      frac == ms % 1000
      digits == IF frac % 100 = 0 THEN ToString(frac \div 100)
                ELSE IF frac % 10 = 0
                  THEN (IF frac < 100 THEN "0" ELSE "") \o ToString(frac \div 10)
                ELSE (IF frac < 10 THEN "00" ELSE IF frac < 100 THEN "0" ELSE "")
                       \o ToString(frac)
  IN ToString(whole) \o "." \o digits

\* str() of a float given in tenths
TenthsStr(t) == ToString(t \div 10) \o "." \o ToString(t % 10)

\* str(1 / speed) for a speed, in tenths, whose inverse has one decimal
InverseStr(speed) == TenthsStr(100 \div speed)

\* 'if not x' for x a number or None
Falsy(x) == x = NoneInt \/ x = 0

\* lines 160-165: the hardware decoder
HwaccelFlags(gpu_vendor) ==
  IF gpu_vendor = "NVIDIA" THEN <<"-hwaccel", "cuda">>
  ELSE IF gpu_vendor = "Intel" THEN <<"-hwaccel", "qsv">>
  ELSE IF gpu_vendor = "AMD" THEN <<"-hwaccel", "dxva2">>
  ELSE <<>>

\* lines 167-169
SeekFlagsAfterInput(job) ==
  <<"-i", job.input_path, "-ss", FloatStr(job.start_time),
    "-t", FloatStr(job.end_time - job.start_time)>>
SeekFlags(job) ==
  <<"-ss", FloatStr(job.start_time), "-i", job.input_path,
    "-t", FloatStr(job.end_time - job.start_time)>>

\* line 172
CopyFlagsPerStream == <<"-c:v", "copy", "-c:a", "copy">>
CopyFlags == <<"-c", "copy">>

\* the encoder of a vendor and its preset
Encoder(gpu_vendor) ==
  IF gpu_vendor = "NVIDIA" THEN <<"-c:v", "h264_nvenc", "-preset", "p4">>
  ELSE IF gpu_vendor = "AMD" THEN <<"-c:v", "h264_amf", "-usage", "transcoding">>
  ELSE IF gpu_vendor = "Intel" THEN <<"-c:v", "h264_qsv", "-preset", "medium">>
  ELSE <<"-c:v", "libx264", "-preset", "medium">>

\* the rate control a vendor's branch derives from quality
RateControlNoZeroCase(gpu_vendor, quality) ==
  LET q == ToString(quality) IN
  IF gpu_vendor = "NVIDIA" THEN <<"-rc", "vbr", "-cq", q, "-b:v", "0">>
  ELSE IF gpu_vendor = "AMD" THEN <<"-rc", "cqp", "-qp_i", q, "-qp_p", q>>
  ELSE IF gpu_vendor = "Intel" THEN <<"-global_quality", q>>
  ELSE <<"-crf", q>>
RateControl(gpu_vendor, quality) ==
  LET q == ToString(quality) IN
  IF gpu_vendor = "NVIDIA"
    THEN IF quality = 0 THEN <<"-rc", "constqp", "-qp", "0">>
         ELSE <<"-rc", "vbr", "-cq", q, "-b:v", "0">>
  ELSE IF gpu_vendor = "AMD" THEN <<"-rc", "cqp", "-qp_i", q, "-qp_p", q>>
  ELSE IF gpu_vendor = "Intel"
    THEN <<"-global_quality", ToString(IF quality = 0 THEN 1 ELSE quality)>>
  ELSE <<"-crf", q>>

\* lines 175-202
EncoderFlags(job) ==
  Encoder(job.gpu_vendor)
    \o (IF Falsy(job.bitrate) THEN RateControl(job.gpu_vendor, job.quality)
                              ELSE <<>>)

\* lines 205-207
BitrateFlagsSingleBuffer(bitrate) ==
  IF Falsy(bitrate) THEN <<>>
  ELSE LET b_val == ToString(bitrate) \o "k"
       IN <<"-b:v", b_val, "-maxrate", b_val, "-bufsize", b_val>>
BitrateFlags(bitrate) ==
  IF Falsy(bitrate) THEN <<>>
  ELSE LET b_val == ToString(bitrate) \o "k"
       IN <<"-b:v", b_val, "-maxrate", b_val,
            "-bufsize", ToString(bitrate * 2) \o "k">>

\* lines 210-214
VideoFiltersSpeedFirst(job) ==
  (IF job.speed # 10
     THEN <<"setpts=" \o InverseStr(job.speed) \o "*PTS">> ELSE <<>>)
  \o (IF job.resolution # NoneStr /\ job.resolution # ""
        THEN <<"scale=" \o job.resolution>> ELSE <<>>)
VideoFilters(job) ==
  (IF job.resolution # NoneStr /\ job.resolution # ""
     THEN <<"scale=" \o job.resolution>> ELSE <<>>)
  \o (IF job.speed # 10
        THEN <<"setpts=" \o InverseStr(job.speed) \o "*PTS">> ELSE <<>>)

\* ','.join
RECURSIVE JoinComma(_)
JoinComma(parts) ==
  IF Len(parts) = 1 THEN Head(parts)
  ELSE Head(parts) \o "," \o JoinComma(Tail(parts))

\* lines 216-217
FilterFlags(job) ==
  LET video_filters == VideoFilters(job)
  IN IF video_filters # <<>> THEN <<"-vf", JoinComma(video_filters)>> ELSE <<>>

\* f'atempo={self.speed}'
AtempoInverse(speed) == "atempo=" \o InverseStr(speed)
Atempo(speed) == "atempo=" \o TenthsStr(speed)

\* lines 219-221
AudioFlags(job) ==
  <<"-c:a", "aac", "-b:a", "192k">>
    \o (IF job.speed # 10 THEN <<"-af", Atempo(job.speed)>> ELSE <<>>)

\* lines 223-224
FpsFlags(fps) == IF Falsy(fps) THEN <<>> ELSE <<"-r", ToString(fps)>>

\* lines 157-226: cmd
BuildCmd(job, ffmpeg_path) ==
  <<ffmpeg_path>>
    \o HwaccelFlags(job.gpu_vendor)
    \o SeekFlags(job)
    \o (IF job.mode = "copy" THEN CopyFlags
        ELSE EncoderFlags(job) \o BitrateFlags(job.bitrate) \o FilterFlags(job)
               \o AudioFlags(job) \o FpsFlags(job.fps))
    \o <<"-y", job.output_path>>

RECURSIVE TotalLines(_)
TotalLines(rs) == IF rs = <<>> THEN 0 ELSE Head(rs).nlines + TotalLines(Tail(rs))

\* the job run() works on: the attributes __init__ stored (self.start_time,
\* self.end_time, self.speed, ...)
PlannedJobOfWidgets(run) ==
  [run EXCEPT !.input_path = video_path,
              !.start_time = start_slider,
              !.end_time = end_slider,
              !.mode = IF copy_mode THEN "copy" ELSE "compress",
              !.speed = IF copy_mode THEN 10 ELSE speed_spin]
PlannedJob(run) == run

\* run(), from its first statement to the return of Popen: the command is
\* built and the process spawned; raised is TRUE when one of these
\* statements raises (tool missing, no STARTUPINFO on this platform).  cmd
\* is the argv of the process that was spawned.
RunSpawn(r, raised) ==
  /\ r \in 1..Len(runs)
  /\ runs[r].pc = "start"
  /\ LET ffmpeg_path == get_tool_path(env, "ffmpeg.exe") IN
     /\ ~PathExists(env, ffmpeg_path) => raised
     /\ IF raised
          THEN /\ runs' = [runs EXCEPT ![r].pc = "done",
                                       ![r].completions = @ \o HandleException]
               /\ queue' = queue \o FinishedEvents(r, HandleException)
          ELSE /\ runs' = [runs EXCEPT ![r].pc = "reading",
                                       ![r].cmd = BuildCmd(PlannedJob(runs[r]),
                                                          ffmpeg_path)]
               /\ UNCHANGED queue
  /\ UNCHANGED <<source_vars, setting_vars, size_estimate_label, probe_vars,
                 bar_vars, shown, ui>>

\* one iteration of 'for line in self.process.stderr'
RunReadLine(r, line) ==
  /\ r \in 1..Len(runs)
  /\ runs[r].pc = "reading"
  /\ TotalLines(runs) < MaxLines
  /\ LET ps == LineProgress(PlannedJob(runs[r]), line) IN
     /\ runs' = [runs EXCEPT ![r].nlines = @ + 1,
                             ![r].skipped = IF LineSkipped(line) THEN @ + 1 ELSE @,
                             ![r].emitted = @ \o ps]
     /\ queue' = queue \o ProgressEvents(r, ps)
  /\ UNCHANGED <<source_vars, setting_vars, size_estimate_label, probe_vars,
                 bar_vars, shown, ui>>

\* reading the stream raises (I/O error): the outer except clause
RunReadError(r) ==
  /\ r \in 1..Len(runs)
  /\ runs[r].pc = "reading"
  /\ runs' = [runs EXCEPT ![r].pc = "done",
                          ![r].completions = @ \o HandleException]
  /\ queue' = queue \o FinishedEvents(r, HandleException)
  /\ UNCHANGED <<source_vars, setting_vars, size_estimate_label, probe_vars,
                 bar_vars, shown, ui>>

\* lines 254-257: what run() emits once wait() has returned
ExitCompletionOnSuccessOnly(code) ==
  IF ExitOk(code) THEN <<Completion(TRUE, MsgDone)>> ELSE <<>>
ExitCompletion(code) ==
  IF ExitOk(code) THEN <<Completion(TRUE, MsgDone)>>
                  ELSE <<Completion(FALSE, MsgGeneric)>>

\* the process closes its stderr and exits with status code: the for loop
\* ends, self.process.wait() returns and the outcome is emitted.  A process
\* that received the termination signal does not exit with status 0.
RunWait(r, code) ==
  /\ r \in 1..Len(runs)
  /\ runs[r].pc = "reading"
  /\ runs[r].signalled => code # 0
  /\ LET cs == ExitCompletion(code)
     IN /\ runs' = [runs EXCEPT ![r].pc = "done",
                                ![r].returncode = code,
                                ![r].completions = @ \o cs]
        /\ queue' = queue \o FinishedEvents(r, cs)
  /\ UNCHANGED <<source_vars, setting_vars, size_estimate_label, probe_vars,
                 bar_vars, shown, ui>>

\* VideoProcessor.stop, called while the thread is running; alive tells
\* whether the process is still there to receive the signal.  No handler of
\* the main window calls stop.
stop(r, alive) ==
  /\ r \in 1..Len(runs)
  /\ runs[r].pc # "done"
  /\ runs' = [runs EXCEPT
                ![r].stopped = TRUE,
                ![r].signalled = @ \/ (runs[r].pc = "reading" /\ alive)]
  /\ UNCHANGED <<source_vars, setting_vars, size_estimate_label, probe_vars,
                 bar_vars, shown, queue, ui>>

\* ------------------------------------------------- delivery to the UI thread
\* the posted event the UI thread handles next: the oldest
NextEventNewest(q) == Len(q)
NextEvent(q) == 1

Remove(q, i) == SubSeq(q, 1, i - 1) \o SubSeq(q, i + 1, Len(q))

\* progress_bar.setValue ignores a value outside the bar's range 0..100
BarValue(old, v) == IF v >= 0 /\ v <= 100 THEN v ELSE old

\* the progress signal reaches progress_bar.setValue
DeliverProgress ==
  /\ queue # <<>>
  /\ LET i == NextEvent(queue)
         e == queue[i]
     IN /\ e.kind = "progress"
        /\ progress_value' = BarValue(progress_value, e.value)
        /\ ui' = [ui EXCEPT ![e.run].progress = @ + 1]
        /\ queue' = Remove(queue, i)
  /\ shown' = "none"
  /\ UNCHANGED <<source_vars, setting_vars, size_estimate_label, probe_vars,
                 progress_visible, process_btn, runs>>

\* process_btn.setEnabled(True) in process_finished
ButtonAfterFinishOnSuccess(success) == success
ButtonAfterFinish(success) == TRUE

\* the finished signal reaches process_finished
process_finished ==
  /\ queue # <<>>
  /\ LET i == NextEvent(queue)
         e == queue[i]
     IN /\ e.kind = "finished"
        /\ progress_visible' = FALSE
        /\ process_btn' = ButtonAfterFinish(e.success)
        /\ shown' = IF e.success THEN "information" ELSE "critical"
        /\ ui' = [ui EXCEPT ![e.run].finished = @ + 1, ![e.run].boxes = @ + 1]
        /\ queue' = Remove(queue, i)
  /\ UNCHANGED <<source_vars, setting_vars, size_estimate_label, probe_vars,
                 progress_value, runs>>

\* ------------------------------------------------- the accelerator check
\* start_gpu_check: the click on detect_btn
start_gpu_check ==
  /\ detect_btn
  /\ detect_btn' = FALSE
  /\ gpu_checker' = [NoChecker EXCEPT !.pc = "start"]
  /\ shown' = "none"
  /\ UNCHANGED <<source_vars, setting_vars, size_estimate_label, env, bar_vars,
                 runs, queue, ui>>

\* what the powershell call that lists the video controllers ends with
HardwareOutcomes == {"listed", "unreadable", "exception"}

\* the lines 54-61 add to the report
HardwareLines(outcome) ==
  IF outcome = "listed" THEN <<"gpu name">>
  ELSE IF outcome = "unreadable" THEN <<"hardware list unreadable">>
  ELSE <<"hardware read error">>

\* GPUCheckThread.run from its first statement to the loop over tests
GpuCheckHardware(outcome) ==
  /\ gpu_checker.pc = "start"
  /\ LET ffmpeg_path == get_tool_path(env, "ffmpeg.exe")
         warning == IF ~PathExists(env, ffmpeg_path) /\ "ffmpeg" \notin env.on_path
                      THEN <<"ffmpeg.exe not found">> ELSE <<>>
     IN gpu_checker' =
          [gpu_checker EXCEPT
             !.pc = "testing",
             !.ffmpeg_path = ffmpeg_path,
             !.report = <<"hardware">> \o HardwareLines(outcome)
                          \o <<"diagnosis">> \o warning]
  /\ UNCHANGED <<source_vars, setting_vars, size_estimate_label, detect_btn,
                 env, bar_vars, shown, runs, queue, ui>>

\* tests, the vendors in the order they are tried
Tests == <<"NVIDIA", "AMD", "Intel">>

\* what one synthetic encode ends with: exit status 0, a non-zero status
\* with 'device not found' in stderr, another non-zero status, or an
\* exception of subprocess.run (the tool is not there, no STARTUPINFO)
TestOutcomes == {"exit 0", "device not found", "error", "exception"}

\* proc.returncode == 0
TestPassedUnlessNoDevice(result) == result \in {"exit 0", "error"}
TestPassed(result) == result = "exit 0"

\* the report line of one test
TestLine(vendor, result) ==
  IF result = "exception" THEN vendor \o ": run failed"
  ELSE IF TestPassed(result) THEN vendor \o ": available"
  ELSE IF result = "device not found" THEN vendor \o ": no hardware"
  ELSE vendor \o ": test failed"

Range(seq) == {seq[i] : i \in 1..Len(seq)}

\* lines 102-114: rec_vendor
RecommendLast(available_vendors) ==
  IF "Intel" \in Range(available_vendors) THEN "Intel"
  ELSE IF "AMD" \in Range(available_vendors) THEN "AMD"
  ELSE IF "NVIDIA" \in Range(available_vendors) THEN "NVIDIA"
  ELSE "CPU"
Recommend(available_vendors) ==
  IF "NVIDIA" \in Range(available_vendors) THEN "NVIDIA"
  ELSE IF "AMD" \in Range(available_vendors) THEN "AMD"
  ELSE IF "Intel" \in Range(available_vendors) THEN "Intel"
  ELSE "CPU"

\* one iteration of the loop over tests; after the last one run() goes on
\* to line 117 and emits
GpuCheckTest(result) ==
  /\ gpu_checker.pc = "testing"
  /\ ~PathExists(env, gpu_checker.ffmpeg_path) => result = "exception"
  /\ LET vendor == Tests[gpu_checker.tested + 1]
         passed == result # "exception" /\ TestPassed(result)
         available == gpu_checker.available_vendors
                        \o (IF passed THEN <<vendor>> ELSE <<>>)
         report == Append(gpu_checker.report, TestLine(vendor, result))
         last == gpu_checker.tested + 1 = Len(Tests)
         rec_vendor == Recommend(available)
         final == report \o <<"result", "recommend " \o rec_vendor>>
     IN gpu_checker' =
          [gpu_checker EXCEPT
             !.tested = @ + 1,
             !.codes = Append(@, result),
             !.available_vendors = available,
             !.report = IF last THEN final ELSE report,
             !.pc = IF last THEN "done" ELSE "testing",
             !.emitted = IF last
                           THEN Append(@, [final_msg |-> final,
                                           rec_vendor |-> rec_vendor])
                           ELSE @]
  /\ UNCHANGED <<source_vars, setting_vars, size_estimate_label, detect_btn,
                 env, bar_vars, shown, runs, queue, ui>>

\* on_gpu_check_finished: the finished signal of the GPUCheckThread
on_gpu_check_finished ==
  /\ gpu_checker.delivered < Len(gpu_checker.emitted)
  /\ LET e == gpu_checker.emitted[gpu_checker.delivered + 1] IN
     /\ detect_btn' = TRUE
     /\ shown' = "report"
     /\ gpu_combo' = IF e.rec_vendor \in Vendors THEN e.rec_vendor ELSE gpu_combo
     /\ gpu_checker' = [gpu_checker EXCEPT !.delivered = @ + 1]
  /\ UNCHANGED <<source_vars, copy_mode, speed_spin, quality_spin, fps_check,
                 fps_spin, bitrate_check, bitrate_spin, resolution_combo,
                 format_combo, size_estimate_label, env, bar_vars, runs, queue,
                 ui>>

\* ------------------------------------------------------------ specification
\* The input sets of the specifications.  Spec is the whole application: one
\* file the prober reads, range sliders put at either end, an encoder that
\* prints any of Lines.  SpecSource is the window before a run
\* is started, with every file, every outcome of the prober and every
\* setting.  SpecStop is the application together with a caller of
\* VideoProcessor.stop and an encoder that prints chatter or one time= marker.
MainSources == {"a.mp4"}
MainOutcomes == {"ok"}
MainPositions == {0, 2000}
StopLines ==
  { [marker |-> FALSE, fields |-> <<>>],
    [marker |-> TRUE, fields |-> <<Num(0), Num(0), Num(100)>>] }

LoadStep(sources, outcomes, bitrates) ==
  \E s \in sources, o \in outcomes, b \in bitrates : load_video(s, o, b)

SliderStep(positions) ==
  \E w \in {"start", "end"}, v \in positions : MoveSlider(w, v)

SettingStep ==
  \/ \E b \in BOOLEAN : SetMode(b)
  \/ \E v \in SpeedValues : SetSpeed(v)

StartStep == \E out \in {"", "out.mp4"} : process_video(out)

WorkerStep(lines) ==
  \/ \E r \in 1..MaxRuns, raised \in BOOLEAN : RunSpawn(r, raised)
  \/ \E r \in 1..MaxRuns, line \in lines : RunReadLine(r, line)
  \/ \E r \in 1..MaxRuns : RunReadError(r)
  \/ \E r \in 1..MaxRuns, code \in ExitCodes : RunWait(r, code)

UiStep == DeliverProgress \/ process_finished

Next ==
  \/ LoadStep(MainSources, MainOutcomes, {TRUE})
  \/ SliderStep(MainPositions)
  \/ StartStep
  \/ WorkerStep(Lines)
  \/ UiStep

Spec == Init /\ [][Next]_vars

NextSource ==
  \/ LoadStep(Sources, ProbeOutcomes, BOOLEAN)
  \/ SliderStep(SliderPositions)
  \/ SettingStep

SpecSource == Init /\ [][NextSource]_vars

StopStep == \E r \in 1..MaxRuns, alive \in BOOLEAN : stop(r, alive)

NextStop ==
  \/ LoadStep(MainSources, MainOutcomes, {TRUE})
  \/ SliderStep(MainPositions)
  \/ StartStep
  \/ WorkerStep(StopLines)
  \/ UiStep
  \/ StopStep

SpecStop == Init /\ [][NextStop]_vars

\* SpecPlan is the planning of one job: the window has a.mp4 loaded and its
\* widgets hold any of the settings the user can leave them in; process_video
\* is clicked and run() builds the command.
PlanPositions == {0, 500, 2000}

InitPlan ==
  /\ video_path = "a.mp4"
  /\ video_duration = SrcDuration("a.mp4")
  /\ video_bitrate = SrcBitrate("a.mp4")
  /\ slider_max = SrcDuration("a.mp4")
  /\ start_slider \in {0, 500}
  /\ end_slider \in PlanPositions
  /\ copy_mode \in BOOLEAN
  /\ speed_spin \in SpeedValues
  /\ quality_spin \in QualityValues
  /\ fps_check \in BOOLEAN
  /\ fps_spin = 30
  /\ bitrate_check \in BOOLEAN
  /\ bitrate_spin \in BitrateValues
  /\ resolution_combo \in Resolutions
  /\ gpu_combo \in Vendors
  /\ format_combo \in {"mp4", "mkv"}
  /\ size_estimate_label =
       estimate_file_size(DashLabel, video_path, video_bitrate, start_slider,
                          end_slider, copy_mode, speed_spin, bitrate_check,
                          bitrate_spin, quality_spin, resolution_combo)
  /\ env = DefaultEnv
  /\ process_btn = TRUE
  /\ InitIdle

SpawnStep == \E r \in 1..MaxRuns, raised \in BOOLEAN : RunSpawn(r, raised)

NextPlan == StartStep \/ SpawnStep

SpecPlan == InitPlan /\ [][NextPlan]_vars

\* SpecEstimate is the window with the one-minute file and every widget the
\* estimate reads.
EstimatePositions == {0, 30000, 60000}

EstimateStep ==
  \/ \E v \in QualityValues : SetQuality(v)
  \/ \E b \in BOOLEAN : SetBitrateCheck(b)
  \/ \E v \in BitrateValues : SetBitrate(v)
  \/ \E t \in Resolutions : SetResolution(t)

NextEstimate ==
  \/ LoadStep(LongSources, MainOutcomes, {TRUE})
  \/ SliderStep(EstimatePositions)
  \/ SettingStep
  \/ EstimateStep

SpecEstimate == Init /\ [][NextEstimate]_vars

\* SpecProbe is the accelerator check on any machine.
InitProbe ==
  /\ video_path = NoPath
  /\ video_duration = 0
  /\ video_bitrate = 0
  /\ slider_max = DefaultSliderMax
  /\ start_slider = 0
  /\ end_slider = 0
  /\ copy_mode = TRUE
  /\ speed_spin = 10
  /\ quality_spin = 23
  /\ fps_check = FALSE
  /\ fps_spin = 60
  /\ bitrate_check = FALSE
  /\ bitrate_spin = 10000
  /\ resolution_combo = "Original"
  /\ gpu_combo = "CPU"
  /\ format_combo = "mp4"
  /\ size_estimate_label = DashLabel
  /\ env \in Envs
  /\ process_btn = FALSE
  /\ InitIdle

GpuCheckStep ==
  \/ \E outcome \in HardwareOutcomes : GpuCheckHardware(outcome)
  \/ \E result \in TestOutcomes : GpuCheckTest(result)

NextProbe == start_gpu_check \/ GpuCheckStep \/ on_gpu_check_finished

SpecProbe == InitProbe /\ [][NextProbe]_vars

\* SpecLive is the application, its encoder printing chatter or one time=
\* marker, with the scheduling the claim about termination assumes: a
\* started thread gets to run, the external process closes its stderr and
\* exits, and the event loop of the UI thread handles what is posted to it.
Fairness ==
  /\ \A r \in 1..MaxRuns :
       /\ WF_vars(\E raised \in BOOLEAN : RunSpawn(r, raised))
       /\ WF_vars(\E code \in ExitCodes : RunWait(r, code))
  /\ WF_vars(UiStep)

NextLive ==
  \/ LoadStep(MainSources, MainOutcomes, {TRUE})
  \/ SliderStep(MainPositions)
  \/ StartStep
  \/ WorkerStep(StopLines)
  \/ UiStep

SpecLive == Init /\ [][NextLive]_vars /\ Fairness

\* SpecJob is one submitted job and a user who goes on changing the window
\* while it runs: a.mp4 is loaded, the whole file is the range and the
\* advanced widgets hold settings other than those of a new window; after
\* process_video has started the run, every widget is changed and another
\* file is loaded.
JobLines == {[marker |-> TRUE, fields |-> <<Num(0), Num(0), Num(100)>>]}

InitJob ==
  /\ video_path = "a.mp4"
  /\ video_duration = SrcDuration("a.mp4")
  /\ video_bitrate = SrcBitrate("a.mp4")
  /\ slider_max = SrcDuration("a.mp4")
  /\ start_slider = 0
  /\ end_slider = SrcDuration("a.mp4")
  /\ copy_mode \in BOOLEAN
  /\ speed_spin = 20
  /\ quality_spin = 0
  /\ fps_check = TRUE
  /\ fps_spin = 30
  /\ bitrate_check = TRUE
  /\ bitrate_spin = 1000
  /\ resolution_combo = "720p"
  /\ gpu_combo = "NVIDIA"
  /\ format_combo = "mkv"
  /\ size_estimate_label =
       estimate_file_size(DashLabel, video_path, video_bitrate, start_slider,
                          end_slider, copy_mode, speed_spin, bitrate_check,
                          bitrate_spin, quality_spin, resolution_combo)
  /\ env = DefaultEnv
  /\ process_btn = TRUE
  /\ InitIdle

ChangeStep ==
  \/ LoadStep(Sources, MainOutcomes, {TRUE})
  \/ SliderStep(MainPositions)
  \/ \E b \in BOOLEAN : SetMode(b)
  \/ \E v \in {10, 20} : SetSpeed(v)
  \/ \E v \in {0, 23} : SetQuality(v)
  \/ \E b \in BOOLEAN : SetFpsCheck(b)
  \/ \E v \in FpsValues : SetFps(v)
  \/ \E b \in BOOLEAN : SetBitrateCheck(b)
  \/ \E v \in BitrateValues : SetBitrate(v)
  \/ \E t \in {"Original", "720p"} : SetResolution(t)
  \/ \E t \in {"CPU", "NVIDIA"} : SetGpu(t)
  \/ \E t \in {"mp4", "mkv"} : SetFormat(t)

JobWorkerStep ==
  \/ SpawnStep
  \/ \E r \in 1..MaxRuns, line \in JobLines : RunReadLine(r, line)

NextJob ==
  \/ (runs = <<>> /\ StartStep)
  \/ (runs # <<>> /\ ChangeStep)
  \/ JobWorkerStep

SpecJob == InitJob /\ [][NextJob]_vars

\* ------------------------------------------------------------------ claims
RunIds == 1..Len(runs)

\* a worker that was started and whose finished signal has not yet reached
\* process_finished
Active(r) == ui[r].finished = 0

\* C1: at most one transcode run is active at any time: process_video never
\* starts a second VideoProcessor while an earlier one has not delivered its
\* finished notification.
C1_AtMostOneActive == Cardinality({r \in RunIds : Active(r)}) <= 1

\* C2: within one run the progress percentages given to progress.emit are
\* non-decreasing, whatever the diagnostic lines are.
C2_ProgressNonDecreasing ==
  \A r \in RunIds : \A i, j \in 1..Len(runs[r].emitted) :
    i < j => runs[r].emitted[i] <= runs[r].emitted[j]

\* C3: every progress percentage given to progress.emit lies in 0..100.
C3_ProgressInRange ==
  \A r \in RunIds : \A i \in 1..Len(runs[r].emitted) :
    runs[r].emitted[i] >= 0 /\ runs[r].emitted[i] <= 100

\* the notifications run() emits for a run nobody stopped
OrdinaryOutcomes ==
  {Completion(TRUE, MsgDone), Completion(FALSE, MsgGeneric),
   Completion(FALSE, MsgException)}

\* C4: when stop() is called on a running VideoProcessor whose process is
\* alive, the process gets the termination signal and, once it has exited,
\* the run's outcome is reported as Cancelled, which the receiver can tell
\* from Succeeded and from the Failed of an ordinary non-zero exit.
C4_StopReportsCancelled ==
  \A r \in RunIds :
    (runs[r].stopped /\ runs[r].signalled /\ runs[r].returncode # NoReturnCode)
      => runs[r].completions[1] \notin OrdinaryOutcomes

\* no signal of run r is posted behind its finished signal
NothingAfterFinished(r) ==
  \A i, j \in 1..Len(queue) :
    (i < j /\ queue[i].run = r /\ queue[i].kind = "finished") => queue[j].run # r

\* C5: a run whose process was spawned and whose exit wait() has seen emits
\* exactly one completion: success with the success message iff the exit code
\* is 0, failure with the generic message otherwise; run() is then over and
\* no progress signal follows the completion.
C5_ExitCodeDecidesOutcome ==
  \A r \in RunIds :
    runs[r].returncode # NoReturnCode =>
      /\ runs[r].pc = "done"
      /\ Len(runs[r].completions) = 1
      /\ runs[r].completions[1].success <=> (runs[r].returncode = 0)
      /\ runs[r].completions[1].msg =
           (IF runs[r].returncode = 0 THEN MsgDone ELSE MsgGeneric)
      /\ NothingAfterFinished(r)
      /\ ui[r].finished <= 1

\* the process exited with a non-zero code, the failure was emitted after two
\* progress values and has reached the UI thread
C5_Witness ==
  \E r \in RunIds :
    /\ runs[r].returncode = 1
    /\ Len(runs[r].emitted) = 2
    /\ ui[r].finished = 1

\* run() has returned without wait() returning: a statement raised
Raised(r) == runs[r].pc = "done" /\ runs[r].returncode = NoReturnCode

\* C6: an exception while the command is built, the process spawned or its
\* output read becomes exactly one finished(False, message); a run never
\* ends with no completion or with two.
C6_ExceptionReportedOnce ==
  \A r \in RunIds :
    /\ Len(runs[r].completions) <= 1
    /\ runs[r].pc = "done" => Len(runs[r].completions) = 1
    /\ Raised(r) => runs[r].completions = <<Completion(FALSE, MsgException)>>
    /\ ui[r].finished <= Len(runs[r].completions)

\* reading raised after a line was read, and the one failure was delivered
C6_Witness ==
  \E r \in RunIds :
    /\ Raised(r)
    /\ runs[r].nlines > 0
    /\ ui[r].finished = 1

\* C7: the progress signals of a run are all emitted and delivered before its
\* finished signal: nothing of the run is posted behind its finished signal,
\* and once process_finished has run for it every progress value it emitted
\* has reached the progress bar and none is pending.
C7_ProgressBeforeFinished ==
  \A r \in RunIds :
    /\ NothingAfterFinished(r)
    /\ runs[r].completions # <<>> => runs[r].pc = "done"
    /\ ui[r].finished > 0 =>
         /\ ui[r].progress = Len(runs[r].emitted)
         /\ \A k \in 1..Len(queue) : queue[k].run # r

\* a run's progress value and its completion were delivered while another
\* run still has a progress signal pending
C7_Witness ==
  \E r, o \in RunIds :
    /\ r # o
    /\ ui[r].finished = 1
    /\ ui[r].progress = 1
    /\ \E k \in 1..Len(queue) : queue[k].run = o /\ queue[k].kind = "progress"

\* the finished signal of run r is handled in this step
FinishedHandled(r) == ui'[r].finished = ui[r].finished + 1

\* C8: after a failed run (non-zero exit or caught exception)
\* process_finished shows exactly one message, hides the progress bar and
\* enables the start button, so that process_video can start a new run.
C8_FailureReturnsToIdle ==
  [][\A r \in RunIds :
       (FinishedHandled(r) /\ ~runs[r].completions[1].success) =>
         /\ shown' = "critical"
         /\ ui'[r].boxes = 1
         /\ ~progress_visible'
         /\ process_btn'
         /\ video_path' # NoPath]_vars

\* the error box of a failed run is up, the bar hidden and the button enabled
C8_Witness ==
  /\ shown = "critical"
  /\ ~progress_visible
  /\ process_btn
  /\ \E r \in RunIds :
       ui[r].boxes = 1 /\ runs[r].completions = <<Completion(FALSE, MsgGeneric)>>

\* C9: process_video rejects every cut range with start >= end before
\* anything is planned or spawned: it shows the range warning, creates no
\* VideoProcessor and leaves the progress bar and the start button as they
\* are; every VideoProcessor that exists has start_time < end_time.
C9_BadRangeRejected ==
  /\ [](\A r \in RunIds : runs[r].start_time < runs[r].end_time)
  /\ [][(StartStep /\ video_path # NoPath /\ start_slider >= end_slider) =>
          /\ shown' = "range"
          /\ UNCHANGED <<runs, queue, ui, progress_visible, progress_value,
                         process_btn>>]_vars

\* the range warning is up for a start beyond the end while a run is going on
C9_Witness ==
  /\ shown = "range"
  /\ start_slider > end_slider
  /\ \E r \in RunIds : Active(r)

\* C10: after load_video the stored source information is that of the file
\* just loaded or is empty; nothing probed from an earlier file remains.
C10_InfoOfCurrentSource ==
  video_path # NoPath =>
    /\ video_duration \in {0, SrcDuration(video_path)}
    /\ video_bitrate \in {0, SrcBitrate(video_path)}
    /\ slider_max \in {DefaultSliderMax, SrcDuration(video_path)}

\* ------------------------------------------------- claims about the argv
\* run r has built its command and spawned the process
Spawned(r) == runs[r].cmd # <<>>

Reencoded(r) == Spawned(r) /\ runs[r].mode # "copy"

\* seq occurs in cmd from position i on
OccursAt(cmd, i, seq) ==
  i >= 1 /\ i + Len(seq) - 1 <= Len(cmd) /\ SubSeq(cmd, i, i + Len(seq) - 1) = seq

Occurs(cmd, seq) == \E i \in 1..Len(cmd) : OccursAt(cmd, i, seq)

\* the flags of cmd that belong to flags, each with the token after it, in
\* the order of cmd
RECURSIVE FlagPairs(_, _, _)
FlagPairs(cmd, flags, i) ==
  IF i >= Len(cmd) THEN <<>>
  ELSE IF cmd[i] \in flags
    THEN <<cmd[i], cmd[i + 1]>> \o FlagPairs(cmd, flags, i + 2)
  ELSE FlagPairs(cmd, flags, i + 1)

RateControlFlags ==
  {"-crf", "-rc", "-cq", "-qp", "-qp_i", "-qp_p", "-global_quality", "-b:v",
   "-maxrate", "-bufsize"}

ReencodeOnlyFlags == RateControlFlags \cup {"-c:v", "-c:a", "-vf", "-af", "-r"}

\* the text of a number of seconds
SecondsText(ms) ==
  IF ms = 0 THEN "0.0" ELSE IF ms = 500 THEN "0.5" ELSE IF ms = 1500 THEN "1.5"
  ELSE IF ms = 2000 THEN "2.0" ELSE "?"

\* C11: the argv of a copy-mode job contains no encoder selection (-c:v,
\* -c:a), no filter flag (-vf, -af), no rate-control flag and no -r,
\* whatever quality, fps, bitrate, resolution, accelerator and speed are set.
C11_CopyHasNoReencodeFlag ==
  \A r \in RunIds :
    (Spawned(r) /\ runs[r].mode = "copy") =>
      Range(runs[r].cmd) \cap ReencodeOnlyFlags = {}

\* a copy-mode command was built while every advanced widget holds a
\* setting that would add flags to a re-encode
C11_Witness ==
  \E r \in RunIds :
    /\ Spawned(r) /\ runs[r].mode = "copy"
    /\ bitrate_check /\ fps_check /\ speed_spin = 20 /\ quality_spin = 0
    /\ resolution_combo = "720p" /\ gpu_combo = "NVIDIA"

\* C12: the argv of a copy-mode job is made of the tool, the cut range, the
\* source path, the copy directive and the output path only: it is the same
\* whatever accelerator and whatever other advanced setting is chosen.
C12_CopyArgvOfRangeAndPaths ==
  \A r \in RunIds :
    (Spawned(r) /\ runs[r].mode = "copy") =>
      runs[r].cmd =
        <<get_tool_path(env, "ffmpeg.exe"),
          "-ss", SecondsText(runs[r].start_time), "-i", runs[r].input_path,
          "-t", SecondsText(runs[r].end_time - runs[r].start_time),
          "-c", "copy", "-y", runs[r].output_path>>

\* a copy-mode command was built with a hardware accelerator chosen in
\* gpu_combo
C12_Witness ==
  \E r \in RunIds :
    /\ Spawned(r) /\ runs[r].mode = "copy"
    /\ gpu_combo = "AMD" /\ resolution_combo = "4K"
    /\ runs[r].start_time = 500

\* the rate control of a job with quality 0 and no bitrate
LosslessRateControl(gpu_vendor) ==
  IF gpu_vendor = "NVIDIA" THEN <<"-rc", "constqp", "-qp", "0">>
  ELSE IF gpu_vendor = "AMD" THEN <<"-rc", "cqp", "-qp_i", "0", "-qp_p", "0">>
  ELSE IF gpu_vendor = "Intel" THEN <<"-global_quality", "1">>
  ELSE <<"-crf", "0">>

\* C13: a re-encode with quality 0 and no explicit bitrate has, for every
\* accelerator, exactly that accelerator's lossless rate control in its argv:
\* '-rc constqp -qp 0' for NVIDIA, '-rc cqp -qp_i 0 -qp_p 0' for AMD,
\* '-global_quality 1' for Intel, '-crf 0' for CPU.
C13_QualityZeroRateControl ==
  \A r \in RunIds :
    (Reencoded(r) /\ runs[r].quality = 0 /\ Falsy(runs[r].bitrate)) =>
      FlagPairs(runs[r].cmd, RateControlFlags, 1)
        = LosslessRateControl(runs[r].gpu_vendor)

\* an NVIDIA re-encode with quality 0 and no bitrate was planned
C13_Witness ==
  \E r \in RunIds :
    /\ Reencoded(r) /\ runs[r].quality = 0 /\ Falsy(runs[r].bitrate)
    /\ runs[r].gpu_vendor = "NVIDIA"
    /\ Occurs(runs[r].cmd, <<"-rc", "constqp", "-qp", "0">>)

\* the text of a bitrate
BitrateText(b) ==
  IF b = 1000 THEN "1000k" ELSE IF b = 2000 THEN "2000k"
  ELSE IF b = 10000 THEN "10000k" ELSE IF b = 20000 THEN "20000k" ELSE "?"

\* C14: a re-encode with an explicit bitrate B has
\* '-b:v Bk -maxrate Bk -bufsize (2B)k' in its argv for every accelerator and
\* quality, and no rate-control flag comes after these: they are the last
\* rate-control flags of the argv and -b:v occurs once.
C14_BitrateOverridesQuality ==
  \A r \in RunIds :
    (Reencoded(r) /\ ~Falsy(runs[r].bitrate)) =>
      LET cmd == runs[r].cmd
          b == BitrateText(runs[r].bitrate)
          flags == <<"-b:v", b, "-maxrate", b,
                     "-bufsize", BitrateText(2 * runs[r].bitrate)>>
      IN /\ \E i \in 1..Len(cmd) :
              /\ OccursAt(cmd, i, flags)
              /\ \A j \in (i + Len(flags))..Len(cmd) :
                   cmd[j] \notin RateControlFlags
         /\ Cardinality({j \in 1..Len(cmd) : cmd[j] = "-b:v"}) = 1

\* an NVIDIA re-encode with a bitrate of 10000 kbps and a non-zero quality
\* was planned
C14_Witness ==
  \E r \in RunIds :
    /\ Reencoded(r) /\ runs[r].bitrate = 10000 /\ runs[r].quality = 23
    /\ runs[r].gpu_vendor = "NVIDIA"
    /\ Occurs(runs[r].cmd, <<"-bufsize", "20000k">>)

\* the filters of a speed, as the claim gives them
SetptsText(speed) == IF speed = 20 THEN "setpts=0.5*PTS" ELSE "setpts=2.0*PTS"
AtempoText(speed) == IF speed = 20 THEN "atempo=2.0" ELSE "atempo=0.5"

\* the argument of -vf in cmd, "" when there is none
VfArgument(cmd) ==
  LET p == FlagPairs(cmd, {"-vf"}, 1) IN IF p = <<>> THEN "" ELSE p[2]

\* C15: in a re-encode a speed other than 1.0 gives the video filter
\* setpts=(1/speed)*PTS inside -vf and the audio filter '-af atempo=speed';
\* speed 1.0 gives neither; the audio is always encoded with
\* '-c:a aac -b:a 192k'.
C15_SpeedFilters ==
  \A r \in RunIds :
    Reencoded(r) =>
      LET cmd == runs[r].cmd
          scale == "scale=" \o runs[r].resolution
      IN /\ Occurs(cmd, <<"-c:a", "aac", "-b:a", "192k">>)
         /\ IF runs[r].speed # 10
              THEN /\ VfArgument(cmd) \in
                        {SetptsText(runs[r].speed),
                         scale \o "," \o SetptsText(runs[r].speed)}
                   /\ FlagPairs(cmd, {"-af"}, 1)
                        = <<"-af", AtempoText(runs[r].speed)>>
              ELSE /\ VfArgument(cmd) \in {"", scale}
                   /\ "-af" \notin Range(cmd)

\* a re-encode at double speed and scaled to 720p was planned
C15_Witness ==
  \E r \in RunIds :
    /\ Reencoded(r) /\ runs[r].speed = 20
    /\ VfArgument(runs[r].cmd) = "scale=1280:-1,setpts=0.5*PTS"
    /\ Occurs(runs[r].cmd, <<"-af", "atempo=2.0">>)

\* ------------------------------------------------- claims about the estimate
\* the label estimate_file_size gives for the widgets as they are, with
\* quality_spin at q
LabelFor(q) ==
  estimate_file_size(size_estimate_label, video_path, video_bitrate,
                     start_slider, end_slider, copy_mode, speed_spin,
                     bitrate_check, bitrate_spin, q, resolution_combo)

\* C16: with everything else fixed, the size estimate_file_size shows does
\* not grow with the quality value over 0..51, and the label shown is the one
\* of the current quality.
C16_EstimateNonIncreasingInQuality ==
  /\ \A q \in QualityRange \ {0} :
       /\ LabelFor(q).tenths <= LabelFor(q - 1).tenths
       /\ LabelFor(q).kind = LabelFor(q - 1).kind
  /\ size_estimate_label = LabelFor(quality_spin)

\* the estimate of a re-encode at quality 51 is shown and is smaller than
\* the one quality 0 would give
C16_Witness ==
  /\ ~copy_mode /\ ~bitrate_check /\ quality_spin = 51
  /\ size_estimate_label.kind = "compress"
  /\ size_estimate_label.tenths < LabelFor(0).tenths

\* bitrate * seconds / 8 kilobytes, shown in tenths of a MB of 1024 kilobytes
ShownKilobytes(kbps, ms) ==
  LET kilobytes == Rat(kbps * ms, 8 * 1000)
  IN RoundRat(RatMul(kilobytes, Rat(10, 1024)))

\* C17: in copy mode the size shown is source bitrate * (end - start) / 8
\* kilobytes, whatever speed, quality, bitrate and resolution are set; a
\* re-encode whose settings keep the source bitrate and the speed shows the
\* same number, the unit being the same in both modes.
C17_CopyEstimate ==
  (video_path # NoPath /\ video_bitrate # 0 /\ start_slider < end_slider) =>
    /\ copy_mode =>
         size_estimate_label =
           [kind |-> "copy",
            tenths |-> ShownKilobytes(video_bitrate, end_slider - start_slider)]
    /\ (~copy_mode /\ ~bitrate_check /\ quality_spin = 0 /\ speed_spin = 10
        /\ resolution_combo \in {"Original", "4K"}) =>
         size_estimate_label =
           [kind |-> "compress",
            tenths |-> ShownKilobytes(video_bitrate, end_slider - start_slider)]

\* 8000 kbps over 60 s in copy mode: 60000 kilobytes, shown as 58.6 MB, with
\* the speed, the bitrate and the resolution widgets left at other settings
C17_Witness ==
  /\ copy_mode /\ video_bitrate = 8000
  /\ start_slider = 0 /\ end_slider = 60000
  /\ speed_spin = 20 /\ bitrate_check /\ resolution_combo = "720p"
  /\ size_estimate_label = [kind |-> "copy", tenths |-> 586]

\* ------------------------------------------------- claims about the probe
\* the first vendor of tests whose encode exited with status 0
FirstPassed(codes) ==
  IF codes[1] = "exit 0" THEN "NVIDIA"
  ELSE IF codes[2] = "exit 0" THEN "AMD"
  ELSE IF codes[3] = "exit 0" THEN "Intel"
  ELSE "CPU"

\* C18: the accelerator check takes a vendor as available iff its synthetic
\* encode exits with status 0; run() ends by emitting exactly one result,
\* whose recommendation is the first available vendor in the order NVIDIA,
\* AMD, Intel, or CPU; a missing tool and a process error are lines of the
\* report, and run() emits nothing before it ends.
C18_ProbeResult ==
  /\ gpu_checker.pc # "done" => gpu_checker.emitted = <<>>
  /\ \A i \in 1..gpu_checker.tested :
       (Tests[i] \in Range(gpu_checker.available_vendors))
         <=> (gpu_checker.codes[i] = "exit 0")
  /\ gpu_checker.pc = "done" =>
       /\ Len(gpu_checker.emitted) = 1
       /\ gpu_checker.tested = 3
       /\ gpu_checker.emitted[1].rec_vendor = FirstPassed(gpu_checker.codes)
       /\ \A i \in 1..3 :
            gpu_checker.codes[i] # "exit 0" =>
              \E k \in 1..Len(gpu_checker.emitted[1].final_msg) :
                gpu_checker.emitted[1].final_msg[k]
                  \in {Tests[i] \o ": run failed", Tests[i] \o ": no hardware",
                       Tests[i] \o ": test failed"}
       /\ ~PathExists(env, gpu_checker.ffmpeg_path) =>
            gpu_checker.available_vendors = <<>>

\* the check ended with NVIDIA's device missing and AMD and Intel passing:
\* AMD was recommended and reached the window
C18_Witness ==
  /\ gpu_checker.pc = "done"
  /\ gpu_checker.codes = <<"device not found", "exit 0", "exit 0">>
  /\ gpu_checker.delivered = 1
  /\ gpu_combo = "AMD"

\* the first of bundle, script directory and search path that holds the
\* file, the bare name when none does
FirstExisting(e, filename) ==
  IF filename \in e.bundled THEN Join(Meipass, filename)
  ELSE IF filename \in e.local THEN Join(ScriptDir, filename)
  ELSE IF filename \in e.on_path THEN Join(PathDir, filename)
  ELSE filename

\* C19: get_tool_path returns the first of the bundled-resource directory,
\* the application directory and the search path where the file exists, and
\* the bare file name only when it exists in none of them.
C19_FirstExistingLocation ==
  gpu_checker.pc \in {"testing", "done"} =>
    gpu_checker.ffmpeg_path = FirstExisting(env, "ffmpeg.exe")

\* ------------------------------------------------- claim about the order
\* the hardware-decode hint of a vendor
DecodeHint(gpu_vendor) ==
  IF gpu_vendor = "NVIDIA" THEN <<"-hwaccel", "cuda">>
  ELSE IF gpu_vendor = "AMD" THEN <<"-hwaccel", "dxva2">>
  ELSE IF gpu_vendor = "Intel" THEN <<"-hwaccel", "qsv">>
  ELSE <<>>

\* the text of a frame rate
FpsText(fps) == IF fps = 30 THEN "30" ELSE IF fps = 60 THEN "60" ELSE "?"

\* C20: every argv is the tool, the vendor's hardware-decode hint (none for
\* CPU), '-ss start', '-i source', '-t (end - start)', the flags of the mode
\* and last '-y' and the output path; '-r fps', when fps is set, comes after
\* the audio flags and right before '-y'.
C20_TokenOrder ==
  \A r \in RunIds :
    Spawned(r) =>
      LET cmd == runs[r].cmd
          n == Len(cmd)
          head == DecodeHint(runs[r].gpu_vendor)
                    \o <<"-ss", SecondsText(runs[r].start_time),
                         "-i", runs[r].input_path,
                         "-t", SecondsText(runs[r].end_time - runs[r].start_time)>>
      IN /\ OccursAt(cmd, 2, head)
         /\ "-hwaccel" \notin Range(SubSeq(cmd, 2 + Len(DecodeHint(runs[r].gpu_vendor)), n))
         /\ cmd[n - 1] = "-y" /\ cmd[n] = runs[r].output_path
         /\ (runs[r].mode # "copy" /\ ~Falsy(runs[r].fps)) =>
              /\ OccursAt(cmd, n - 3, <<"-r", FpsText(runs[r].fps)>>)
              /\ \A j \in 1..n :
                   cmd[j] \in {"-c:a", "-b:a", "-af"} => j < n - 3

\* an Intel re-encode from 0.5 s on, with a frame rate and a speed set, was
\* planned
C20_Witness ==
  \E r \in RunIds :
    /\ Reencoded(r) /\ runs[r].gpu_vendor = "Intel" /\ runs[r].fps = 30
    /\ runs[r].speed = 5 /\ runs[r].start_time = 500
    /\ OccursAt(runs[r].cmd, 2, <<"-hwaccel", "qsv", "-ss", "0.5">>)

\* ------------------------------------------------- claim about the filters
\* the scale filter of a resolution tier, no text for Original
ScaleText(tier) ==
  IF tier = "4K" THEN <<"scale=3840:-1">>
  ELSE IF tier = "2K" THEN <<"scale=2560:-1">>
  ELSE IF tier = "1080p" THEN <<"scale=1920:-1">>
  ELSE IF tier = "720p" THEN <<"scale=1280:-1">>
  ELSE <<>>

\* the setpts filter of a speed, no text for 1.0
SpeedText(speed) == IF speed = 10 THEN <<>> ELSE <<SetptsText(speed)>>

\* the one argument the parts of a filter chain are joined into
ChainText(parts) ==
  IF Len(parts) = 2 THEN parts[1] \o "," \o parts[2] ELSE parts[1]

\* C21: a re-encode has its video filters in one -vf argument: scale=W:-1
\* when a tier other than Original is chosen in resolution_combo (W = 3840,
\* 2560, 1920, 1280 for 4K, 2K, 1080p, 720p), then the setpts filter when the
\* speed is not 1.0, joined by a comma; with neither there is no -vf token.
C21_FilterChain ==
  \A r \in RunIds :
    Reencoded(r) =>
      LET parts == ScaleText(resolution_combo) \o SpeedText(runs[r].speed)
      IN FlagPairs(runs[r].cmd, {"-vf"}, 1) =
           (IF parts = <<>> THEN <<>> ELSE <<"-vf", ChainText(parts)>>)

\* a re-encode to 2K at half speed was planned, and one with neither filter
\* has no -vf
C21_Witness ==
  \E r \in RunIds :
    /\ Reencoded(r) /\ resolution_combo = "2K" /\ runs[r].speed = 5
    /\ Occurs(runs[r].cmd, <<"-vf", "scale=2560:-1,setpts=2.0*PTS">>)

\* ------------------------------------------------- claim about ignored lines
\* the lines without a time= marker, and those whose marker has not three
\* fields or has a field that is not a number
IgnoredLines ==
  { l \in Lines :
      \/ ~l.marker
      \/ Len(l.fields) # 3
      \/ \E i \in 1..Len(l.fields) : ~l.fields[i].num }

\* C22: a diagnostic line without a time= marker, or with a marker whose
\* fields are missing or not numbers, is ignored: reading it emits no
\* progress, posts nothing and leaves run() in its loop; the outcome of the
\* run is still the one the exit code gives.
C22_BadLinesIgnored ==
  /\ [][\A r \in RunIds, l \in IgnoredLines :
          RunReadLine(r, l) =>
            /\ runs'[r].emitted = runs[r].emitted
            /\ runs'[r].completions = runs[r].completions
            /\ runs'[r].pc = "reading"
            /\ queue' = queue]_vars
  /\ [](\A r \in RunIds :
          (runs[r].returncode # NoReturnCode /\ runs[r].emitted = <<>>) =>
            runs[r].completions =
              <<IF runs[r].returncode = 0 THEN Completion(TRUE, MsgDone)
                                          ELSE Completion(FALSE, MsgGeneric)>>)

\* a run read a line without marker and a malformed marker, emitted no
\* progress and its success was delivered
C22_Witness ==
  \E r \in RunIds :
    /\ runs[r].nlines = 2 /\ runs[r].skipped = 1 /\ runs[r].emitted = <<>>
    /\ runs[r].returncode = 0
    /\ ui[r].finished = 1 /\ shown = "information"

\* ------------------------------------------------- claim about termination
\* C23: every run process_video starts comes to an end: when the external
\* process closes its stream and exits, the worker emits its completion,
\* process_finished handles it and the start button is enabled again.
C23_RunsTerminate ==
  \A r \in 1..MaxRuns :
    (Len(runs) >= r) ~>
      (Len(runs) >= r /\ runs[r].pc = "done" /\ runs[r].completions # <<>>
         /\ ui[r].finished = 1 /\ process_btn)

\* two runs were started, both have ended and been handled, nothing is
\* pending and the button is enabled
C23_Witness ==
  /\ Len(runs) = MaxRuns
  /\ \A r \in RunIds : runs[r].pc = "done" /\ ui[r].finished = 1
  /\ queue = <<>>
  /\ process_btn /\ ~progress_visible

\* ------------------------------------------------- claim about the job
\* the job of a run: the arguments VideoProcessor was constructed with
JobOf(run) ==
  <<run.input_path, run.output_path, run.start_time, run.end_time, run.mode,
    run.quality, run.fps, run.bitrate, run.output_format, run.resolution,
    run.gpu_vendor, run.speed>>

\* the argv of the job submitted with the window as SpecJob starts it
SubmittedArgv(mode) ==
  IF mode = "copy"
    THEN <<"script_dir/ffmpeg.exe", "-ss", "0.0", "-i", "a.mp4", "-t", "2.0",
           "-c", "copy", "-y", "out.mp4">>
    ELSE <<"script_dir/ffmpeg.exe", "-hwaccel", "cuda", "-ss", "0.0",
           "-i", "a.mp4", "-t", "2.0", "-c:v", "h264_nvenc", "-preset", "p4",
           "-b:v", "1000k", "-maxrate", "1000k", "-bufsize", "2000k",
           "-vf", "scale=1280:-1,setpts=0.5*PTS",
           "-c:a", "aac", "-b:a", "192k", "-af", "atempo=2.0",
           "-r", "30", "-y", "out.mp4">>

\* the percentage of the marker 00:00:01.00 for that job: 1 s of a clip of
\* 2 s, at speed 1.0 in copy mode and 2.0 in a re-encode
SubmittedPercent(mode) == IF mode = "copy" THEN 50 ELSE 100

\* C24: a submitted job does not change: whatever the user sets in the
\* window or loads after process_video has started a run, the run keeps the
\* arguments it was constructed with, the argv it builds is the one of the
\* job as submitted, and its progress is computed with the clip duration and
\* the speed of the job as submitted.
C24_JobImmutable ==
  /\ [][\A r \in RunIds :
          /\ JobOf(runs'[r]) = JobOf(runs[r])
          /\ Spawned(r) => runs'[r].cmd = runs[r].cmd]_vars
  /\ [](\A r \in RunIds :
          /\ Spawned(r) => runs[r].cmd = SubmittedArgv(runs[r].mode)
          /\ \A i \in 1..Len(runs[r].emitted) :
               runs[r].emitted[i] = SubmittedPercent(runs[r].mode))

\* a re-encode was submitted; before its command was built and its progress
\* computed the user loaded b.mp4, went back to copy mode and moved the range
C24_Witness ==
  \E r \in RunIds :
    /\ runs[r].cmd = SubmittedArgv("compress")
    /\ runs[r].emitted = <<100, 100>>
    /\ video_path = "b.mp4" /\ copy_mode /\ end_slider = 0
    /\ gpu_combo = "CPU" /\ ~fps_check /\ format_combo = "mp4"

====
